---- MODULE Spec2Model ----
(***************************************************************************)
(* Model of the documentation synchronizer (sync-filesystem.js, and its    *)
(* second revision kept in the repository) and of the watch controller     *)
(* (sync-filesystem-watch.js).                                             *)
(*                                                                         *)
(* Text (file names, file content) is a sequence of one-character strings. *)
(* A fixed, never inspected piece of generated text (the prose of an index *)
(* page, the body of sidebars.js) is one multi-character element.          *)
(* A path is a sequence of names below the repository root; <<>> is the    *)
(* repository root itself.                                                 *)
(***************************************************************************)
EXTENDS Integers, Sequences, FiniteSets, TLC

VARIABLES
    fs,           \* the filesystem: path -> [kind, data]
    script,       \* which revision of the synchronizer the process loaded
    pc,           \* position of the process: "start", "startup", "idle" (the event
                  \* loop waits), "callback" (the timer callback runs), "done",
                  \* "crashed" (uncaught exception), "stopped" (process.exit)
    syncTimeout,  \* sync-filesystem-watch.js: let syncTimeout (0 is null, else a timer handle)
    timers,       \* the runtime's armed timers: handle -> remaining ms
    nextHandle,   \* the handle the next setTimeout returns
    queue,        \* watcher events delivered by chokidar, not yet handled
    running,      \* run-sync invocations begun and not yet returned
    hist          \* history of the run, read by the properties only

vars == <<fs, script, pc, syncTimeout, timers, nextHandle, queue, running, hist>>

----------------------------------------------------------------------------
(* Text helpers: JavaScript String methods as they act.                    *)

Whitespace == {" ", "\n", "\t"}

\* String.prototype.startsWith
StartsWith(s, p) ==
    /\ Len(s) >= Len(p)
    /\ SubSeq(s, 1, Len(p)) = p

\* String.prototype.endsWith
EndsWith(s, p) ==
    /\ Len(s) >= Len(p)
    /\ SubSeq(s, Len(s) - Len(p) + 1, Len(s)) = p

\* String.prototype.trim: drops the leading and the trailing whitespace
Trim(s) ==
    LET keep == {i \in 1..Len(s) : s[i] \notin Whitespace}
    IN  IF keep = {} THEN <<>>
        ELSE LET lo == CHOOSE i \in keep : \A j \in keep : i <= j
                 hi == CHOOSE i \in keep : \A j \in keep : j <= i
             IN  SubSeq(s, lo, hi)

\* String.prototype.replace(/[-_]/g, ' ')
ReplaceSeparators(s) ==
    [i \in 1..Len(s) |-> IF s[i] \in {"-", "_"} THEN " " ELSE s[i]]

\* String.prototype.replace(/\.mdx?$/, '')
StripMdExtension(s) ==
    IF EndsWith(s, <<".", "m", "d">>) THEN SubSeq(s, 1, Len(s) - 3)
    ELSE IF EndsWith(s, <<".", "m", "d", "x">>) THEN SubSeq(s, 1, Len(s) - 4)
    ELSE s

\* path.extname: from the last '.' of the name to its end; empty when the
\* name has no '.', or its only '.' is its first character
extname(name) ==
    LET dots == {i \in 1..Len(name) : name[i] = "."}
    IN  IF dots = {} THEN <<>>
        ELSE LET last == CHOOSE i \in dots : \A j \in dots : j <= i
             IN  IF last = 1 THEN <<>> ELSE SubSeq(name, last, Len(name))

----------------------------------------------------------------------------
(* Names used by the configuration and by the modelled trees.              *)

N_docs       == <<"d", "o", "c", "s">>
N_build      == <<"b", "u", "i", "l", "d">>
N_src        == <<"s", "r", "c">>
N_static     == <<"s", "t", "a", "t", "i", "c">>
N_git        == <<".", "g", "i", "t">>
N_github     == <<".", "g", "i", "t", "h", "u", "b">>
N_docusaurus == <<".", "d", "o", "c", "u", "s", "a", "u", "r", "u", "s">>
N_cache      == <<".", "c", "a", "c", "h", "e", "-", "l", "o", "a", "d", "e", "r">>
N_node       == <<"n", "o", "d", "e", "_", "m", "o", "d", "u", "l", "e", "s">>
N_vdocs      == <<"v", "e", "r", "s", "i", "o", "n", "e", "d", "_", "d", "o", "c", "s">>
N_vsidebars  == <<"v", "e", "r", "s", "i", "o", "n", "e", "d", "_",
                  "s", "i", "d", "e", "b", "a", "r", "s">>
N_hid        == <<".", "h", "i", "d">>
N_guide      == <<"m", "y", "-", "g", "u", "i", "d", "e">>
N_sub        == <<"s", "u", "b">>

N_intro      == <<"i", "n", "t", "r", "o", ".", "m", "d">>
N_page       == <<"a", "_", "b", ".", "m", "d", "x">>
N_notes      == <<"n", "o", "t", "e", "s", ".", "t", "x", "t">>
N_secret     == <<".", "s", "e", "c", ".", "m", "d">>
N_index      == <<"i", "n", "d", "e", "x", ".", "m", "d">>
N_readme     == <<"R", "E", "A", "D", "M", "E", ".", "m", "d">>
N_license    == <<"L", "I", "C", "E", "N", "S", "E">>
N_sidebars   == <<"s", "i", "d", "e", "b", "a", "r", "s", ".", "j", "s">>
N_package    == <<"p", "a", "c", "k", "a", "g", "e", ".", "j", "s", "o", "n">>
N_packlock   == <<"p", "a", "c", "k", "a", "g", "e", "-", "l", "o", "c", "k",
                  ".", "j", "s", "o", "n">>
N_config     == <<"d", "o", "c", "u", "s", "a", "u", "r", "u", "s", ".",
                  "c", "o", "n", "f", "i", "g", ".", "j", "s">>
N_babel      == <<"b", "a", "b", "e", "l", ".", "c", "o", "n", "f", "i", "g", ".", "j", "s">>
N_gitignore  == <<".", "g", "i", "t", "i", "g", "n", "o", "r", "e">>
N_npmrc      == <<".", "n", "p", "m", "r", "c">>
N_dsstore    == <<".", "D", "S", "_", "S", "t", "o", "r", "e">>

----------------------------------------------------------------------------
(* Configuration of the synchronizer.                                      *)

\* config.repoRoot: process.cwd()
repoRoot == <<>>

\* config.docsDir: path.join(process.cwd(), 'docs')
docsDir == <<N_docs>>

excludeDirs ==
    {N_node, N_git, N_github, N_build, N_docusaurus, N_static, N_src, N_docs,
     N_cache, N_vdocs, N_vsidebars}

excludeFiles ==
    {N_package, N_packlock, N_config, N_sidebars, N_babel, N_gitignore, N_npmrc,
     N_readme, N_license, N_dsstore}

\* a variant that forgets .mdx
includeExtensionsMdOnly == {<<".", "m", "d">>}

includeExtensions == {<<".", "m", "d">>, <<".", "m", "d", "x">>}

addFrontmatter == TRUE

createIndexFiles == TRUE

\* a variant that forgets the hidden-entry rule
isExcludedDirListedOnly(dirName) == dirName \in excludeDirs

isExcludedDir(dirName) ==
    dirName \in excludeDirs \/ StartsWith(dirName, <<".">>)

\* a variant that forgets the hidden-entry rule
isExcludedFileListedOnly(fileName) == fileName \in excludeFiles

isExcludedFile(fileName) ==
    fileName \in excludeFiles \/ StartsWith(fileName, <<".">>)

shouldSyncFile(fileName) ==
    extname(fileName) \in includeExtensions /\ ~isExcludedFile(fileName)

----------------------------------------------------------------------------
(* Frontmatter.                                                            *)

Delimiter == <<"-", "-", "-">>

hasFrontmatter(content) == StartsWith(Trim(content), Delimiter)

\* sync-filesystem.js: the title keeps its surrounding blanks and the block
\* carries sidebar_position: auto
generateFrontmatter(fileName) ==
    LET title == ReplaceSeparators(StripMdExtension(fileName))
    IN  Delimiter \o <<"\n", "t", "i", "t", "l", "e", ":", " ">> \o title
        \o <<"\n", "sidebar_position: auto", "\n">> \o Delimiter \o <<"\n", "\n">>

\* the second revision: the title is trimmed and the block has the title only
generateFrontmatterRev2(fileName) ==
    LET title == Trim(ReplaceSeparators(StripMdExtension(fileName)))
    IN  Delimiter \o <<"\n", "t", "i", "t", "l", "e", ":", " ">> \o title
        \o <<"\n">> \o Delimiter \o <<"\n", "\n">>

\* path.basename(filePath) is the last name of the path
ensureFrontmatter(rev, fileName, content) ==
    IF ~addFrontmatter THEN content
    ELSE IF ~hasFrontmatter(content)
         THEN (IF rev = 2 THEN generateFrontmatterRev2(fileName)
               ELSE generateFrontmatter(fileName)) \o content
         ELSE content

\* the content createIndexFile writes for a directory
indexContent(rev, dirName) ==
    LET title == IF rev = 2 THEN Trim(ReplaceSeparators(dirName))
                 ELSE ReplaceSeparators(dirName)
    IN  Delimiter \o <<"\n", "t", "i", "t", "l", "e", ":", " ">> \o title
        \o <<"\n", "sidebar_position: 1", "\n">> \o Delimiter
        \o <<"\n", "\n", "#", " ">> \o title
        \o <<"\n", "\n", "index prose, up to the quoted title">> \o title
        \o <<"index prose, after the quoted title", "\n">>

----------------------------------------------------------------------------
(* The filesystem and the fs calls the scripts make.                       *)
(*                                                                         *)
(* A pass threads a record st through its calls:                           *)
(*   st.fs    the filesystem so far                                        *)
(*   st.n     the number of throwing fs calls made so far                  *)
(*   st.fail  the call that fails for an outside reason (0: none)          *)
(*   st.err   TRUE once a call has thrown; every later step is skipped,    *)
(*            as the exception unwinds forEach and the recursion           *)
(*   st.read  the paths readdirSync or readFileSync was called on          *)
(*   st.wrote the paths writeFileSync wrote                                *)

Dir == [kind |-> "dir", data |-> <<>>]

File(content) == [kind |-> "file", data |-> content]

Start(f, fail) ==
    [fs |-> f, n |-> 0, fail |-> fail, err |-> FALSE, read |-> {}, wrote |-> {}]

\* one throwing fs call: counted, and failing when it is the st.fail-th
Call(st) ==
    IF st.err THEN st
    ELSE [st EXCEPT !.n = st.n + 1, !.err = (st.fail = st.n + 1)]

Throw(st) == [st EXCEPT !.err = TRUE]

Parent(p) == SubSeq(p, 1, Len(p) - 1)

IsPrefix(p, q) == Len(p) <= Len(q) /\ SubSeq(q, 1, Len(p)) = p

Prefixes(p) == {SubSeq(p, 1, k) : k \in 0..Len(p)}

\* fs.existsSync: never throws
existsSync(f, p) == p \in DOMAIN f

IsDirectory(f, p) == p \in DOMAIN f /\ f[p].kind = "dir"

IsFile(f, p) == p \in DOMAIN f /\ f[p].kind = "file"

\* fs.mkdirSync(p, { recursive: true }): creates p and its missing ancestors;
\* throws when an ancestor, or p itself, is a file
mkdirSync(st, p) ==
    LET s1 == Call(st)
    IN  IF s1.err THEN s1
        ELSE IF \E q \in Prefixes(p) : IsFile(s1.fs, q) THEN Throw(s1)
        ELSE [s1 EXCEPT !.fs =
                [q \in DOMAIN s1.fs \cup Prefixes(p) |->
                    IF q \in DOMAIN s1.fs THEN s1.fs[q] ELSE Dir]]

\* fs.writeFileSync(p, content, 'utf8'): creates or overwrites the file;
\* throws when the parent is no directory or p is a directory
writeFileSync(st, p, content) ==
    LET s1 == Call(st)
    IN  IF s1.err THEN s1
        ELSE IF ~IsDirectory(s1.fs, Parent(p)) \/ IsDirectory(s1.fs, p) THEN Throw(s1)
        ELSE [s1 EXCEPT !.fs =
                [q \in DOMAIN s1.fs \cup {p} |->
                    IF q = p THEN File(content) ELSE s1.fs[q]],
                        !.wrote = s1.wrote \cup {p}]

\* every name a modelled tree uses, in the order a sorted listing gives
NameOrder ==
    <<N_hid, N_secret, N_readme, N_page, N_build, N_docs, N_index, N_intro,
      N_guide, N_notes, N_sidebars, N_sub>>

Names == {NameOrder[i] : i \in 1..Len(NameOrder)}

Reverse(s) == [i \in 1..Len(s) |-> s[Len(s) + 1 - i]]

\* fs.readdirSync(d): the names in d, in the order the filesystem yields
\* them, which Node does not fix: ord picks one of two orders
Listing(f, d, ord) ==
    LET here(name) == Append(d, name) \in DOMAIN f
        sorted == SelectSeq(NameOrder, here)
    IN  IF ord = "desc" THEN Reverse(sorted) ELSE sorted

----------------------------------------------------------------------------
(* The synchronizer.                                                       *)

ensureDir(st, dirPath) ==
    IF st.err THEN st
    ELSE IF ~existsSync(st.fs, dirPath) THEN mkdirSync(st, dirPath)
    ELSE st

\* a variant that appends to an existing target file instead of replacing it
syncFileAppending(st, rev, sourcePath, targetPath) ==
    LET s1 == IF st.err THEN st
              ELSE [Call(st) EXCEPT !.read = st.read \cup {sourcePath}]
    IN  IF s1.err THEN s1
        ELSE LET processedContent ==
                     ensureFrontmatter(rev, sourcePath[Len(sourcePath)],
                                       s1.fs[sourcePath].data)
                 old == IF IsFile(s1.fs, targetPath) THEN s1.fs[targetPath].data
                        ELSE <<>>
             IN  writeFileSync(ensureDir(s1, Parent(targetPath)), targetPath,
                               old \o processedContent)

\* a variant that injects the frontmatter into the source file as well
syncFileInPlace(st, rev, sourcePath, targetPath) ==
    LET s1 == IF st.err THEN st
              ELSE [Call(st) EXCEPT !.read = st.read \cup {sourcePath}]
    IN  IF s1.err THEN s1
        ELSE LET processedContent ==
                     ensureFrontmatter(rev, sourcePath[Len(sourcePath)],
                                       s1.fs[sourcePath].data)
                 s2 == writeFileSync(s1, sourcePath, processedContent)
             IN  writeFileSync(ensureDir(s2, Parent(targetPath)), targetPath,
                               processedContent)

syncFile(st, rev, sourcePath, targetPath) ==
    LET s1 == IF st.err THEN st                     \* fs.readFileSync
              ELSE [Call(st) EXCEPT !.read = st.read \cup {sourcePath}]
    IN  IF s1.err THEN s1
        ELSE LET content == s1.fs[sourcePath].data
                 processedContent ==
                     ensureFrontmatter(rev, sourcePath[Len(sourcePath)], content)
                 s2 == ensureDir(s1, Parent(targetPath))
             IN  writeFileSync(s2, targetPath, processedContent)

createIndexFile(st, rev, dirPath, dirName) ==
    IF st.err \/ ~createIndexFiles THEN st
    ELSE LET indexPath == Append(dirPath, N_index)
         IN  IF existsSync(st.fs, indexPath) THEN st
             ELSE writeFileSync(st, indexPath, indexContent(rev, dirName))

RECURSIVE syncItems(_, _, _, _, _, _)

syncDirectory(st, rev, ord, sourceDir, targetDir) ==
    LET s1 == ensureDir(st, targetDir)
        s2 == IF s1.err THEN s1                     \* fs.readdirSync
              ELSE [Call(s1) EXCEPT !.read = s1.read \cup {sourceDir}]
    IN  IF s2.err THEN s2
        ELSE syncItems(s2, rev, ord, sourceDir, targetDir,
                       Listing(s2.fs, sourceDir, ord))

\* a variant that applies the directory exclusion at the top level only
syncItemsTopLevelExclusion(st, rev, ord, sourceDir, targetDir, items) ==
    IF st.err \/ items = <<>> THEN st
    ELSE LET item == Head(items)
             sourcePath == Append(sourceDir, item)
             s1 == Call(st)
             done ==
                 IF s1.err THEN s1
                 ELSE IF s1.fs[sourcePath].kind = "dir"
                 THEN IF sourceDir = repoRoot /\ isExcludedDir(item) THEN s1
                      ELSE LET newTargetDir == Append(targetDir, item)
                               s2 == syncDirectory(s1, rev, ord, sourcePath, newTargetDir)
                           IN  createIndexFile(s2, rev, newTargetDir, item)
                 ELSE IF ~shouldSyncFile(item) THEN s1
                      ELSE syncFile(s1, rev, sourcePath, Append(targetDir, item))
         IN  syncItems(done, rev, ord, sourceDir, targetDir, Tail(items))

\* a variant that catches what an item throws and goes on with the next item
syncItemsContinuing(st, rev, ord, sourceDir, targetDir, items) ==
    IF st.err \/ items = <<>> THEN st
    ELSE LET item == Head(items)
             sourcePath == Append(sourceDir, item)
             s1 == Call(st)
             done ==
                 IF s1.err THEN s1
                 ELSE IF s1.fs[sourcePath].kind = "dir"
                 THEN IF isExcludedDir(item) THEN s1
                      ELSE LET newTargetDir == Append(targetDir, item)
                               s2 == syncDirectory(s1, rev, ord, sourcePath, newTargetDir)
                           IN  createIndexFile(s2, rev, newTargetDir, item)
                 ELSE IF ~shouldSyncFile(item) THEN s1
                      ELSE syncFile(s1, rev, sourcePath, Append(targetDir, item))
         IN  syncItems([done EXCEPT !.err = FALSE], rev, ord, sourceDir, targetDir,
                       Tail(items))

\* items.forEach(item => ...), from the first item left
syncItems(st, rev, ord, sourceDir, targetDir, items) ==
    IF st.err \/ items = <<>> THEN st
    ELSE LET item == Head(items)
             sourcePath == Append(sourceDir, item)
             s1 == Call(st)                         \* fs.statSync
             done ==
                 IF s1.err THEN s1
                 ELSE IF s1.fs[sourcePath].kind = "dir"
                 THEN IF isExcludedDir(item) THEN s1
                      ELSE LET newTargetDir == Append(targetDir, item)
                               s2 == syncDirectory(s1, rev, ord, sourcePath, newTargetDir)
                           IN  createIndexFile(s2, rev, newTargetDir, item)
                 ELSE IF ~shouldSyncFile(item) THEN s1
                      ELSE syncFile(s1, rev, sourcePath, Append(targetDir, item))
         IN  syncItems(done, rev, ord, sourceDir, targetDir, Tail(items))

\* the text of the generated sidebars.js, never inspected: one element
sidebarsContent == <<"sidebars.js: mainSidebar, autogenerated">>

sidebarsContentRev2 == <<"sidebars.js: tutorialSidebar, autogenerated">>

sidebarsPath == <<N_sidebars>>

\* sync-filesystem.js: writes sidebars.js whether or not it exists
generateSidebars(st) ==
    IF st.err THEN st
    ELSE writeFileSync(st, sidebarsPath, sidebarsContent)

\* the second revision: an existing sidebars.js is left alone
generateSidebarsRev2(st) ==
    IF st.err THEN st
    ELSE IF existsSync(st.fs, sidebarsPath) THEN st
    ELSE writeFileSync(st, sidebarsPath, sidebarsContentRev2)

\* syncDirectory(config.repoRoot, config.docsDir), as both main functions
\* and the timer callback call it
runSync(f, rev, ord, fail) ==
    syncDirectory(Start(f, fail), rev, ord, repoRoot, docsDir)

\* generateSidebars() of the revision loaded
generate(st, rev) ==
    IF rev = 2 THEN generateSidebarsRev2(st) ELSE generateSidebars(st)

----------------------------------------------------------------------------
(* The trees the model starts from and the edits a user makes.             *)

MaxEntries == 2     \* entries the source tree starts with
MaxRuns    == 2     \* runs of the one-shot script
MaxFail    == 6     \* the latest fs call of a pass that may fail from outside

C_plain == <<"#", " ", "H">>
C_fm    == <<"-", "-", "-", "\n", "t", ":", "x", "\n", "-", "-", "-", "\n", "B">>
C_ws    == <<" ", "\n">> \o C_fm
C_rule  == <<"-", "-", "-", "\n", "B">>
C_empty == <<>>
C_stale == <<"o", "l", "d">>
C_manual == <<"sidebars.js: written by hand">>

Entry(path, node) == [path |-> path, node |-> node]

\* what a source tree may hold: documents of every kind of content, files
\* that do not qualify, excluded and hidden directories at two depths
Candidates ==
    {Entry(<<N_intro>>, File(c)) : c \in {C_plain, C_fm, C_ws, C_rule, C_empty}}
    \cup {Entry(<<N_guide, N_page>>, File(c)) : c \in {C_plain, C_fm}}
    \cup {Entry(<<N_guide, N_index>>, File(C_fm)),
          Entry(<<N_guide, N_notes>>, File(C_plain)),
          Entry(<<N_guide, N_secret>>, File(C_plain)),
          Entry(<<N_readme>>, File(C_plain)),
          Entry(<<N_build, N_intro>>, File(C_plain)),
          Entry(<<N_hid, N_intro>>, File(C_plain)),
          Entry(<<N_guide, N_build, N_page>>, File(C_plain)),
          Entry(<<N_guide, N_hid, N_page>>, File(C_plain)),
          Entry(<<N_guide, N_sub>>, Dir)}

\* what the target tree and the repository root may hold before the first run
TargetCandidates ==
    {{},
     {Entry(<<N_docs, N_intro>>, File(C_stale)),
      Entry(<<N_docs, N_guide, N_index>>, File(C_stale))},
     {Entry(<<N_docs, N_guide>>, File(C_stale))}}

ManifestCandidates == {{}, {Entry(sidebarsPath, File(C_manual))}}

\* the entries of S lie at different paths
Consistent(S) == \A e1, e2 \in S : e1.path = e2.path => e1 = e2

TreeOf(S) ==
    LET paths == UNION {Prefixes(e.path) : e \in S} \cup {<<>>}
    IN  [p \in paths |->
            IF \E e \in S : e.path = p THEN (CHOOSE e \in S : e.path = p).node
            ELSE Dir]

InitialTrees ==
    {TreeOf(S \cup T) :
        S \in {X \in SUBSET Candidates : Cardinality(X) <= MaxEntries /\ Consistent(X)},
        T \in TargetCandidates}

\* the part of the tree outside the target tree and the manifest
IsSourcePath(p) == ~IsPrefix(docsDir, p) /\ p # sidebarsPath

\* a user adds e (a file or a directory, with the directories above it)
AddEntry(f, e) ==
    [p \in DOMAIN f \cup Prefixes(e.path) |->
        IF p = e.path THEN e.node ELSE IF p \in DOMAIN f THEN f[p] ELSE Dir]

\* a user removes p and everything below it
RemoveEntry(f, p) == [q \in {r \in DOMAIN f : ~IsPrefix(p, r)} |-> f[q]]

----------------------------------------------------------------------------
(* The one-shot script: node sync-filesystem.js, run again and again on    *)
(* an unchanged source tree.                                               *)

Orders == {"asc", "desc"}

\* hist.  Of the last pass: runs (passes so far), ok (syncDirectory
\* returned), thrown (the pass or generateSidebars threw), fail, before and
\* synced (the tree before the pass and after syncDirectory), read, wrote.
\* Of the watcher: fresh (no source edit since the last pass), edits, events
\* (qualifying events handled), sinceEvent (ms since the last of them), burst
\* (events of the burst in progress: each less than debounceMs after the one
\* before), spread (ms from the first to the last event of the burst),
\* passesSince (passes begun since the last event), gap (sinceEvent when the
\* last pass began), errors (an exception was caught), afterError (a pass
\* completed after one was caught), calls (throwing fs calls syncDirectory
\* made in the last pass, the one that threw included)
NoPass ==
    [runs |-> 0, ok |-> FALSE, thrown |-> FALSE, fail |-> 0, before |-> <<>>,
     synced |-> <<>>, read |-> {}, wrote |-> {}, calls |-> 0, fresh |-> FALSE,
     edits |-> 0,
     events |-> 0, sinceEvent |-> 0, burst |-> 0, spread |-> 0,
     passesSince |-> 0, gap |-> -1, errors |-> 0, afterError |-> 0]

\* hist after a pass that took f to s1 (syncDirectory) and s2 (generateSidebars)
PassRecord(f, s1, s2, fail) ==
    [hist EXCEPT !.runs = hist.runs + 1, !.ok = ~s1.err, !.thrown = s2.err,
                 !.fail = fail, !.before = f, !.synced = s1.fs,
                 !.read = s1.read, !.wrote = s1.wrote, !.calls = s1.n,
                 !.fresh = TRUE]

SyncInit ==
    /\ fs \in InitialTrees
    /\ script \in {1, 2}
    /\ pc = "start"
    /\ syncTimeout = 0
    /\ timers = <<>>
    /\ nextHandle = 1
    /\ queue = <<>>
    /\ running = 0
    /\ hist = NoPass

\* main() of the synchronizer: an exception leaves the process with a
\* non-zero exit; cleanOrphanedFiles() only logs
SyncMain(ord, fail) ==
    /\ pc \in {"start", "done"}
    /\ hist.runs < MaxRuns
    /\ LET s1 == runSync(fs, script, ord, fail)
           s2 == generate(s1, script)
       IN  /\ fs' = s2.fs
           /\ pc' = IF s2.err THEN "crashed" ELSE "done"
           /\ hist' = PassRecord(fs, s1, s2, fail)
    /\ UNCHANGED <<script, syncTimeout, timers, nextHandle, queue, running>>

SyncNext == \E ord \in Orders, fail \in 0..MaxFail : SyncMain(ord, fail)

SpecSync == SyncInit /\ [][SyncNext]_vars

----------------------------------------------------------------------------
(* The watch controller: node sync-filesystem-watch.js.                    *)

\* config.debounceMs
debounceMs == 1000

TickMs       == 250   \* the longest step of the clock
MaxEdits     == 1     \* edits a user makes while the watcher runs
MaxWatchFail == 2     \* the latest fs call of a watcher's pass that may fail from outside

\* config.ignored: '**/<name>/**' for each of these names
ignored == {N_node, N_git, N_build, N_docusaurus, N_docs}

\* chokidar reports no event for a path with an ignored name in it
isIgnored(path) == \E k \in 1..Len(path) : path[k] \in ignored

\* the path as the handlers receive it: the names joined by '/'
RECURSIVE PathString(_)
PathString(path) ==
    IF path = <<>> THEN <<>>
    ELSE PathString(Parent(path)) \o <<"/">> \o path[Len(path)]

Event(type, path) == [type |-> type, path |-> path]

\* a variant that lets every event through
qualifiesEveryEvent(ev) == ev.type \in {"add", "change", "unlink", "addDir", "unlinkDir"}

\* the test the 'add', 'change' and 'unlink' handlers make; the 'addDir' and
\* 'unlinkDir' handlers make none
qualifies(ev) ==
    \/ ev.type \in {"addDir", "unlinkDir"}
    \/ EndsWith(PathString(ev.path), <<".", "m", "d">>)
    \/ EndsWith(PathString(ev.path), <<".", "m", "d", "x">>)

Min(a, b) == IF a <= b THEN a ELSE b

Max(a, b) == IF a >= b THEN a ELSE b

\* the bound kept on the clocks of hist
TimeCap == debounceMs + 1

RECURSIVE SeqOf(_)
SeqOf(S) ==
    IF S = {} THEN <<>>
    ELSE LET x == CHOOSE y \in S : \A z \in S : Len(y) >= Len(z)
         IN  <<x>> \o SeqOf(S \ {x})

\* what a user adds or rewrites while the watcher runs
WatchEdits ==
    {Entry(<<N_intro>>, File(C_fm)),
     Entry(<<N_guide, N_sub>>, Dir),
     Entry(<<N_guide, N_notes>>, File(C_plain)),
     Entry(<<N_build, N_intro>>, File(C_plain))}

\* what a user removes while the watcher runs
WatchRemovals == {<<N_intro>>, <<N_guide>>, <<N_sidebars>>}

WatchTrees ==
    {TreeOf(S \cup M) :
        S \in {{}, {Entry(<<N_intro>>, File(C_plain)),
                    Entry(<<N_guide, N_page>>, File(C_plain))}},
        M \in ManifestCandidates}

\* the events chokidar reports for the paths in DOMAIN types, types[p]
\* being the event type of p: none for an ignored path
Reported(types) ==
    LET paths == SeqOf({p \in DOMAIN types : ~isIgnored(p)})
    IN  [i \in 1..Len(paths) |-> Event(types[paths[i]], paths[i])]

Init ==
    /\ fs \in WatchTrees
    /\ script \in {1, 2}
    /\ pc = "start"
    /\ syncTimeout = 0
    /\ timers = <<>>
    /\ nextHandle = 1
    /\ queue = <<>>
    /\ running = 0
    /\ hist = NoPass

\* main(), up to the first call of syncDirectory
StartupBegin ==
    /\ pc = "start"
    /\ pc' = "startup"
    /\ running' = running + 1
    /\ UNCHANGED <<fs, script, syncTimeout, timers, nextHandle, queue, hist>>

\* main(), the rest: the initial sync and generateSidebars() run outside any
\* try, so an exception ends the process; otherwise the watcher is created
\* and the handlers are registered
StartupEnd(ord, fail) ==
    /\ pc = "startup"
    /\ LET s1 == runSync(fs, script, ord, fail)
           s2 == generate(s1, script)
       IN  /\ fs' = s2.fs
           /\ pc' = IF s2.err THEN "crashed" ELSE "idle"
           /\ hist' = PassRecord(fs, s1, s2, fail)
    /\ running' = running - 1
    /\ UNCHANGED <<script, syncTimeout, timers, nextHandle, queue>>

\* a user adds a file or a directory; chokidar reports the directories
\* created on the way and the entry itself
UserAdd(e) ==
    /\ pc \in {"idle", "callback"}
    /\ hist.edits < MaxEdits
    /\ e.path \notin DOMAIN fs
    /\ \A q \in Prefixes(e.path) : ~IsFile(fs, q)
    /\ fs' = AddEntry(fs, e)
    /\ queue' = queue \o Reverse(Reported(
                    [p \in DOMAIN fs' \ DOMAIN fs |->
                        IF fs'[p].kind = "dir" THEN "addDir" ELSE "add"]))
    /\ hist' = [hist EXCEPT !.edits = hist.edits + 1, !.fresh = FALSE]
    /\ UNCHANGED <<script, pc, syncTimeout, timers, nextHandle, running>>

\* a user rewrites a file
UserChange(e) ==
    /\ pc \in {"idle", "callback"}
    /\ hist.edits < MaxEdits
    /\ IsFile(fs, e.path)
    /\ e.node.kind = "file"
    /\ fs[e.path] # e.node
    /\ fs' = [fs EXCEPT ![e.path] = e.node]
    /\ queue' = queue \o Reported([p \in {e.path} |-> "change"])
    /\ hist' = [hist EXCEPT !.edits = hist.edits + 1, !.fresh = FALSE]
    /\ UNCHANGED <<script, pc, syncTimeout, timers, nextHandle, running>>

\* a user removes a file, or a directory with all below it
UserRemove(p) ==
    /\ pc \in {"idle", "callback"}
    /\ hist.edits < MaxEdits
    /\ p \in DOMAIN fs
    /\ fs' = RemoveEntry(fs, p)
    /\ queue' = queue \o Reported(
                    [q \in DOMAIN fs \ DOMAIN fs' |->
                        IF fs[q].kind = "dir" THEN "unlinkDir" ELSE "unlink"])
    /\ hist' = [hist EXCEPT !.edits = hist.edits + 1, !.fresh = FALSE]
    /\ UNCHANGED <<script, pc, syncTimeout, timers, nextHandle, running>>

\* a user writes sidebars.js by hand
UserEditManifest ==
    /\ pc \in {"idle", "callback"}
    /\ hist.edits < MaxEdits
    /\ ~(IsFile(fs, sidebarsPath) /\ fs[sidebarsPath].data = C_manual)
    /\ fs' = AddEntry(fs, Entry(sidebarsPath, File(C_manual)))
    /\ queue' = queue \o Reported(
                    [p \in {sidebarsPath} |->
                        IF sidebarsPath \in DOMAIN fs THEN "change" ELSE "add"])
    /\ hist' = [hist EXCEPT !.edits = hist.edits + 1]
    /\ UNCHANGED <<script, pc, syncTimeout, timers, nextHandle, running>>

\* a variant that arms a new timer without cancelling the one armed
scheduleSyncKeepingTimer ==
    /\ timers' = [h \in DOMAIN timers \cup {nextHandle} |->
                     IF h = nextHandle THEN debounceMs ELSE timers[h]]
    /\ syncTimeout' = nextHandle
    /\ nextHandle' = nextHandle + 1

\* scheduleSync(): clearTimeout(syncTimeout) when it is set (a handle that has
\* fired is cleared to no effect), then syncTimeout = setTimeout(..., debounceMs)
scheduleSync ==
    /\ timers' = [h \in (DOMAIN timers \ {syncTimeout}) \cup {nextHandle} |->
                     IF h = nextHandle THEN debounceMs ELSE timers[h]]
    /\ syncTimeout' = nextHandle
    /\ nextHandle' = nextHandle + 1

\* the event loop runs the handler of the next watcher event
HandleEvent ==
    /\ pc = "idle"
    /\ queue # <<>>
    /\ queue' = Tail(queue)
    /\ IF qualifies(Head(queue))
       THEN /\ scheduleSync
            /\ LET inBurst == hist.events > 0 /\ hist.sinceEvent < debounceMs
               IN  hist' = [hist EXCEPT
                       !.events = 1, !.sinceEvent = 0, !.passesSince = 0,
                       !.burst = IF inBurst THEN Min(hist.burst + 1, 3) ELSE 1,
                       !.spread = IF inBurst
                                  THEN Min(hist.spread + hist.sinceEvent, TimeCap)
                                  ELSE 0]
       ELSE UNCHANGED <<syncTimeout, timers, nextHandle, hist>>
    /\ UNCHANGED <<fs, script, pc, running>>

\* time passes: by TickMs at most, and while the event loop waits, not
\* beyond the moment a timer is due
Tick ==
    /\ pc \in {"idle", "callback"}
    /\ pc = "idle" => \A h \in DOMAIN timers : timers[h] > 0
    /\ DOMAIN timers # {} \/ hist.sinceEvent < TimeCap
    /\ LET due == {timers[h] : h \in DOMAIN timers} \ {0}
           d == IF due = {} THEN TickMs
                ELSE Min(TickMs, CHOOSE x \in due : \A y \in due : x <= y)
       IN  /\ timers' = [h \in DOMAIN timers |-> Max(0, timers[h] - d)]
           /\ hist' = [hist EXCEPT !.sinceEvent = Min(TimeCap, hist.sinceEvent + d)]
    /\ UNCHANGED <<fs, script, pc, syncTimeout, nextHandle, queue, running>>

\* a variant in which the callback starts the pass and returns at once, as
\* with an asynchronous syncDirectory that is not awaited
TimerFireDetached(h) ==
    /\ pc = "idle"
    /\ h \in DOMAIN timers
    /\ timers[h] = 0
    /\ timers' = [k \in DOMAIN timers \ {h} |-> timers[k]]
    /\ running' = running + 1
    /\ hist' = [hist EXCEPT !.passesSince = hist.passesSince + 1,
                            !.gap = hist.sinceEvent]
    /\ UNCHANGED <<fs, script, pc, syncTimeout, nextHandle, queue>>

\* timer h is due and the event loop is free: its callback starts, and with
\* it the pass; syncTimeout keeps the handle
TimerFire(h) ==
    /\ pc = "idle"
    /\ h \in DOMAIN timers
    /\ timers[h] = 0
    /\ timers' = [k \in DOMAIN timers \ {h} |-> timers[k]]
    /\ pc' = "callback"
    /\ running' = running + 1
    /\ hist' = [hist EXCEPT !.passesSince = hist.passesSince + 1,
                            !.gap = hist.sinceEvent]
    /\ UNCHANGED <<fs, script, syncTimeout, nextHandle, queue>>

\* a variant without the try/catch: the exception ends the process
PassEndUncaught(ord, fail) ==
    /\ pc = "callback"
    /\ running > 0
    /\ LET s1 == runSync(fs, script, ord, fail)
           s2 == generate(s1, script)
       IN  /\ fs' = s2.fs
           /\ pc' = IF s2.err THEN "crashed" ELSE "idle"
           /\ hist' = [PassRecord(fs, s1, s2, fail) EXCEPT
                          !.errors = Min(hist.errors + (IF s2.err THEN 1 ELSE 0), 1)]
    /\ running' = running - 1
    /\ UNCHANGED <<script, syncTimeout, timers, nextHandle, queue>>

\* the rest of the callback: try { syncDirectory(...); generateSidebars() }
\* catch (error) { console.error(...) }, and the event loop is free again
PassEnd(ord, fail) ==
    /\ pc = "callback"
    /\ running > 0
    /\ LET s1 == runSync(fs, script, ord, fail)
           s2 == generate(s1, script)
       IN  /\ fs' = s2.fs
           /\ hist' = [PassRecord(fs, s1, s2, fail) EXCEPT
                          !.errors = Min(hist.errors + (IF s2.err THEN 1 ELSE 0), 1),
                          !.afterError = IF hist.errors > 0 /\ ~s2.err THEN 1
                                         ELSE hist.afterError]
    /\ pc' = "idle"
    /\ running' = running - 1
    /\ UNCHANGED <<script, syncTimeout, timers, nextHandle, queue>>

\* SIGINT: watcher.close(); process.exit(0)
Sigint ==
    /\ pc = "idle"
    /\ pc' = "stopped"
    /\ timers' = <<>>
    /\ queue' = <<>>
    /\ UNCHANGED <<fs, script, syncTimeout, nextHandle, running, hist>>

Next ==
    \/ StartupBegin
    \/ \E ord \in Orders, fail \in 0..MaxWatchFail : StartupEnd(ord, fail)
    \/ \E e \in WatchEdits : UserAdd(e)
    \/ \E e \in WatchEdits : UserChange(e)
    \/ \E p \in WatchRemovals : UserRemove(p)
    \/ UserEditManifest
    \/ HandleEvent
    \/ Tick
    \/ \E h \in DOMAIN timers : TimerFire(h)
    \/ \E ord \in Orders, fail \in 0..MaxWatchFail : PassEnd(ord, fail)
    \/ Sigint

Spec == Init /\ [][Next]_vars

\* main() comes to the end of its synchronous part: the initial sync has
\* returned or thrown
StartupReturns == pc = "startup" /\ pc' \in {"idle", "crashed"}

\* the timer callback comes to its end
CallbackReturns == pc = "callback" /\ pc' = "idle"

\* the same, with what Node guarantees: synchronous code runs to its end
\* (main(), a timer callback that has started), time passes, a queued event
\* gets its handler and a due timer its callback; nothing obliges the user
\* to edit or to interrupt
FairSpec ==
    /\ Spec
    /\ WF_vars(StartupBegin)
    /\ WF_pc(StartupReturns)
    /\ WF_vars(HandleEvent)
    /\ WF_vars(Tick)
    /\ WF_vars(\E h \in DOMAIN timers : TimerFire(h))
    /\ WF_pc(CallbackReturns)

----------------------------------------------------------------------------
(* Notions the properties are stated in, defined apart from the code.      *)

MdSuffixes == {<<".", "m", "d">>, <<".", "m", "d", "x">>}

Hidden(name) == Len(name) > 0 /\ name[1] = "."

\* name is the name of a document the synchronizer is to copy
QualifyingDocument(name) ==
    /\ \E x \in MdSuffixes : EndsWith(name, x) /\ Len(name) > Len(x)
    /\ name \notin excludeFiles
    /\ ~Hidden(name)

ExcludedDirName(name) == name \in excludeDirs \/ Hidden(name)

\* the path below the target root that mirrors source path p
Mirror(p) == docsDir \o p

\* the part of tree f below the target root
TargetTree(f) == [p \in {q \in DOMAIN f : IsPrefix(docsDir, q)} |-> f[p]]

\* the paths of f lying strictly below a directory with a name in the
\* excluded-directory set
BeneathListed(f) ==
    {p \in DOMAIN f : \E k \in 1..(Len(p) - 1) :
        p[k] \in excludeDirs /\ IsDirectory(f, SubSeq(p, 1, k))}

\* the paths of f lying strictly below a hidden directory
BeneathHidden(f) ==
    {p \in DOMAIN f : \E k \in 1..(Len(p) - 1) :
        Hidden(p[k]) /\ IsDirectory(f, SubSeq(p, 1, k))}

\* content opens with a frontmatter block: a '---' line, at least one
\* character of metadata, and a closing '---' line
BeginsWithFrontmatter(c) ==
    /\ StartsWith(c, Delimiter \o <<"\n">>)
    /\ \E k \in 6..(Len(c) - 3) :
          /\ c[k] = "\n"
          /\ SubSeq(c, k + 1, k + 3) = Delimiter
          /\ (k + 3 = Len(c) \/ c[k + 4] = "\n")

\* the last run started with no target tree
FromEmptyTarget == hist.runs > 0 /\ docsDir \notin DOMAIN hist.before

\* p is in f and survives the exclusion filtering: no directory on the way
\* is excluded or hidden, and p is such a directory or a qualifying document
Survives(f, p) ==
    /\ p \in DOMAIN f
    /\ \A k \in 1..(Len(p) - 1) : ~ExcludedDirName(p[k])
    /\ p # <<>> =>
          IF f[p].kind = "dir" THEN ~ExcludedDirName(p[Len(p)])
          ELSE QualifyingDocument(p[Len(p)])

\* the relative paths found in the source tree or in the target tree
RelativePaths(f) ==
    DOMAIN f \cup {SubSeq(q, 2, Len(q)) : q \in {r \in DOMAIN f : IsPrefix(docsDir, r)}}

\* the last pass returned and the source tree has not changed since
PassCompleted == hist.runs > 0 /\ hist.ok /\ hist.fresh /\ pc \in {"idle", "done"}

----------------------------------------------------------------------------
(* Claims about one pass of the synchronizer.                              *)

\* C3: after a run-sync pass with add-frontmatter enabled, every file the
\* pass wrote to the target tree has content that begins with '---' opening
\* a non-empty frontmatter block, whatever the source content was.
C3_FrontmatterInvariant ==
    hist.runs > 0 =>
        \A p \in hist.wrote : BeginsWithFrontmatter(hist.synced[p].data)

\* C4: starting from an empty target tree, run-sync never reads a directory
\* whose name is in the excluded set, at any depth, and nothing beneath such
\* a directory has a mirror in the target tree after the pass.
C4_ExclusionCorrectness ==
    FromEmptyTarget =>
        /\ \A p \in BeneathListed(hist.before) :
              Mirror(p) \notin DOMAIN hist.synced /\ p \notin hist.read
        /\ \A d \in DOMAIN hist.before :
              (Len(d) > 0 /\ d[Len(d)] \in excludeDirs /\ IsDirectory(hist.before, d)) =>
                  Mirror(d) \notin DOMAIN hist.synced /\ d \notin hist.read

C4_Witness ==
    /\ FromEmptyTarget
    /\ hist.ok
    /\ <<N_guide, N_build, N_page>> \in DOMAIN hist.before
    /\ Mirror(<<N_guide>>) \in DOMAIN hist.synced

\* C5: a run of run-sync that follows a completed run on an unchanged source
\* tree, with no fs call failing from outside, leaves the target tree (paths
\* and contents, synthesized index documents included) as the first run left
\* it, and completes too.
C5_Idempotence ==
    [][(hist.runs >= 1 /\ hist.ok /\ hist'.runs = hist.runs + 1 /\ hist'.fail = 0)
        => (TargetTree(hist'.synced) = TargetTree(fs) /\ hist'.ok)]_vars

C5_Witness ==
    /\ hist.runs = 2
    /\ hist.ok
    /\ hist.fail = 0
    /\ Mirror(<<N_guide, N_index>>) \in hist.wrote
    /\ Mirror(<<N_guide, N_index>>) \in DOMAIN hist.before
    /\ Mirror(<<N_guide, N_sub, N_index>>) \in DOMAIN hist.before
    /\ Mirror(<<N_guide, N_sub, N_index>>) \notin hist.wrote

\* C8: starting from an empty target tree, no source entry whose name starts
\* with '.', and nothing beneath such an entry, has a mirror in the target
\* tree after the pass, whatever its extension and whether or not the
\* exclusion lists name it.
C8_HiddenEntryExclusion ==
    FromEmptyTarget =>
        /\ \A p \in BeneathHidden(hist.before) : Mirror(p) \notin DOMAIN hist.synced
        /\ \A p \in DOMAIN hist.before :
              (Len(p) > 0 /\ Hidden(p[Len(p)])) => Mirror(p) \notin DOMAIN hist.synced

C8_Witness ==
    /\ FromEmptyTarget
    /\ hist.ok
    /\ <<N_guide, N_secret>> \in DOMAIN hist.before
    /\ <<N_guide, N_hid, N_page>> \in DOMAIN hist.before
    /\ Mirror(<<N_guide>>) \in DOMAIN hist.synced

\* C10: a run-sync pass, completed or aborted, deletes nothing, changes
\* nothing outside the target tree, and only adds directories and adds or
\* overwrites files below the target root.
C10_RunSyncFrame ==
    hist.runs > 0 =>
        /\ \A p \in DOMAIN hist.before :
              /\ p \in DOMAIN hist.synced
              /\ hist.synced[p].kind = hist.before[p].kind
              /\ ~IsPrefix(docsDir, p) => hist.synced[p] = hist.before[p]
        /\ \A p \in DOMAIN hist.synced :
              p \notin DOMAIN hist.before => IsPrefix(docsDir, p)

C10_Witness ==
    /\ hist.runs > 0
    /\ hist.ok
    /\ <<N_intro>> \in DOMAIN hist.before
    /\ ~hasFrontmatter(hist.synced[<<N_intro>>].data)
    /\ hasFrontmatter(hist.synced[Mirror(<<N_intro>>)].data)
    /\ Mirror(<<N_intro>>) \in DOMAIN hist.before
    /\ hist.synced[Mirror(<<N_intro>>)] # hist.before[Mirror(<<N_intro>>)]

\* the place of a name in a sorted listing
Rank(name) == CHOOSE i \in 1..Len(NameOrder) : NameOrder[i] = name

\* a depth-first traversal that lists every directory in order ord visits p
\* before q: a directory before what is in it, and otherwise as the first
\* names that differ are listed
VisitedBefore(ord, p, q) ==
    /\ p # q
    /\ \/ IsPrefix(p, q)
       \/ /\ ~IsPrefix(q, p)
          /\ LET k == CHOOSE i \in 1..Min(Len(p), Len(q)) :
                          p[i] # q[i] /\ SubSeq(p, 1, i - 1) = SubSeq(q, 1, i - 1)
             IN  IF ord = "desc" THEN Rank(p[k]) > Rank(q[k])
                 ELSE Rank(p[k]) < Rank(q[k])

\* the entries of f the traversal comes to: the root, and what lies in
\* directories that are not excluded (the target root, once created, is an
\* entry of the root like any other)
Visited(f) ==
    {p \in DOMAIN f : \A k \in 1..(Len(p) - 1) : ~ExcludedDirName(p[k])}

\* what a pass over f in order ord has written by the time it stops at entry
\* F: the copy of every qualifying document visited before F, and the index
\* document of every directory without one that was left before F
WrittenBefore(f, ord, F) ==
    {Mirror(q) : q \in {r \in DOMAIN f :
        IsFile(f, r) /\ Survives(f, r) /\ VisitedBefore(ord, r, F)}}
    \cup {Append(Mirror(d), N_index) : d \in {r \in DOMAIN f :
        /\ r # <<>>
        /\ IsDirectory(f, r)
        /\ Survives(f, r)
        /\ VisitedBefore(ord, r, F)
        /\ ~IsPrefix(r, F)
        /\ Append(r, N_index) \notin DOMAIN f
        /\ Append(Mirror(r), N_index) \notin DOMAIN f}}

\* the last pass made the fs call that was to fail from outside
FailingCallMade == hist.fail > 0 /\ hist.calls >= hist.fail

\* C11: when an fs call of run-sync fails the pass stops there: no fs call
\* follows the failing one and the call that fails makes syncDirectory throw;
\* what the pass wrote is what a traversal writes before the entry it stopped
\* at, so nothing that comes after that entry is copied and no index document
\* is synthesized for a directory not yet left; the exception reaches main and
\* ends the process; and what was written stays in the target tree, the
\* copies with the content of their source.
C11_AbortOnError ==
    /\ FailingCallMade => (hist.calls = hist.fail /\ ~hist.ok)
    /\ (hist.runs > 0 /\ (FailingCallMade \/ ~hist.ok)) =>
          /\ hist.thrown
          /\ pc = "crashed"
          /\ \E ord \in Orders, F \in Visited(hist.synced) :
                hist.wrote = WrittenBefore(hist.before, ord, F)
          /\ \A p \in hist.wrote :
                /\ IsFile(fs, p)
                /\ fs[p] = hist.synced[p]
                /\ IsFile(hist.before, Tail(p)) =>
                      EndsWith(fs[p].data, hist.before[Tail(p)].data)

C11_Witness ==
    /\ hist.runs > 0
    /\ ~hist.ok
    /\ hist.fail > 0
    /\ hist.calls = hist.fail
    /\ Mirror(<<N_intro>>) \in hist.wrote
    /\ Survives(hist.before, <<N_guide, N_page>>)
    /\ Mirror(<<N_guide, N_page>>) \notin DOMAIN fs
    /\ Mirror(<<N_guide, N_index>>) \notin DOMAIN fs

----------------------------------------------------------------------------
(* Claims about the watch controller.                                      *)

\* C1: a step of the process (a one-shot sync, the startup sync, a resync)
\* taken while sidebars.js exists leaves the content of sidebars.js as it
\* was, so a manifest written by hand is never overwritten.
C1_ManifestNonClobber ==
    [][(sidebarsPath \in DOMAIN fs /\ hist'.edits = hist.edits)
        => (sidebarsPath \in DOMAIN fs' /\ fs'[sidebarsPath] = fs[sidebarsPath])]_vars

\* C2: at most one debounce timer is armed, and it is due debounceMs after
\* the last qualifying event; no pass begins less than debounceMs after that
\* event, a pass begins exactly debounceMs after it, and once more than
\* debounceMs have passed since it exactly one pass has begun: a burst of
\* events less than debounceMs apart gets one pass, after its last event.
C2_DebounceCoalescing ==
    /\ Cardinality(DOMAIN timers) <= 1
    /\ \A h \in DOMAIN timers : timers[h] = debounceMs - hist.sinceEvent
    /\ hist.passesSince <= 1
    /\ hist.gap \in {-1, debounceMs}
    /\ (hist.events > 0 /\ hist.sinceEvent < debounceMs) => hist.passesSince = 0
    /\ (hist.events > 0 /\ hist.sinceEvent > debounceMs /\ pc \in {"idle", "callback"})
          => hist.passesSince = 1

C2_Witness ==
    /\ hist.burst >= 2
    /\ hist.spread >= TickMs
    /\ hist.passesSince = 1
    /\ hist.gap = debounceMs
    /\ hist.sinceEvent > debounceMs

\* C6: when a timer-triggered resync throws, the exception is caught: the
\* process is not ended, the controller is back in Idle (the event loop free,
\* no timer armed, no pass running), and a qualifying event handled after
\* that still arms the debounce timer for a full window.
C6_ErrorContainment ==
    [][/\ (pc = "callback" /\ pc' # "callback" /\ hist'.thrown)
            => (pc' = "idle" /\ timers' = <<>> /\ running' = 0)
       /\ hist'.errors > 0 => pc' # "crashed"
       /\ (hist.errors > 0 /\ pc = "idle" /\ pc' = "idle" /\ queue # <<>>
           /\ queue' = Tail(queue) /\ qualifies(Head(queue)))
            => (syncTimeout' \in DOMAIN timers'
                /\ timers'[syncTimeout'] = debounceMs)]_vars

C6_Witness ==
    /\ hist.errors > 0
    /\ hist.afterError = 1
    /\ pc = "idle"
    /\ ~hist.thrown

\* C7, as claimed: after a completed pass a path exists in the target tree
\* if and only if the same relative path survives the exclusion filtering
\* in the current source tree.
C7_TreeIsomorphism ==
    PassCompleted =>
        \A p \in RelativePaths(fs) : Mirror(p) \in DOMAIN fs <=> Survives(fs, p)

\* C7, amended: after a completed pass every path that survives the
\* exclusion filtering in the current source tree exists at the same
\* relative path in the target tree.
C7_SourceMirrored ==
    PassCompleted =>
        \A p \in RelativePaths(fs) : Survives(fs, p) => Mirror(p) \in DOMAIN fs

C7_Witness ==
    /\ PassCompleted
    /\ hist.runs >= 2
    /\ <<N_guide>> \notin DOMAIN fs
    /\ Mirror(<<N_guide, N_page>>) \in DOMAIN fs
    /\ Mirror(<<N_guide, N_index>>) \in DOMAIN fs
    /\ <<N_intro>> \in DOMAIN fs
    /\ Mirror(<<N_intro>>) \in DOMAIN fs

\* C9: at most one run-sync invocation is in progress, and one is in
\* progress exactly while the startup sync or the timer callback runs.
C9_NoOverlap ==
    /\ running <= 1
    /\ running = 1 <=> pc \in {"startup", "callback"}

C9_Witness ==
    /\ pc = "callback"
    /\ running = 1
    /\ queue # <<>>
    /\ qualifies(Head(queue))
    /\ hist.passesSince = 1

\* the event is about a file whose path ends with .md or .mdx
MdFileEvent(ev) ==
    /\ ev.type \in {"add", "change", "unlink"}
    /\ \E x \in MdSuffixes : EndsWith(ev.path[Len(ev.path)], x)

DirEvent(ev) == ev.type \in {"addDir", "unlinkDir"}

\* this step is the event loop running the handler of the event at the head
\* of the queue
HandlerStep ==
    pc = "idle" /\ pc' = "idle" /\ queue # <<>> /\ queue' = Tail(queue)

\* after the step exactly one timer is armed, for the whole debounce window,
\* and it is a new one
ArmedAnew ==
    /\ DOMAIN timers' = {syncTimeout'}
    /\ syncTimeout' \notin DOMAIN timers
    /\ timers'[syncTimeout'] = debounceMs

\* C12: the handler of a file event (added, changed, removed) arms the
\* debounce timer for a full window, from Idle or re-arming, if and only if
\* the path ends with .md or .mdx; the handler of a directory event always
\* arms it; the handler of any other file event leaves the controller and an
\* armed timer as they are; a timer is armed by such a handler only, and a
\* resync pass begins only when an armed timer is due, so no other event
\* causes a pass.
C12_EventFilter ==
    [][/\ HandlerStep =>
            /\ (MdFileEvent(Head(queue)) \/ DirEvent(Head(queue))) => ArmedAnew
            /\ ~(MdFileEvent(Head(queue)) \/ DirEvent(Head(queue))) =>
                  /\ timers' = timers
                  /\ syncTimeout' = syncTimeout
                  /\ running' = running
                  /\ fs' = fs
       /\ (DOMAIN timers' \ DOMAIN timers # {}) =>
            (HandlerStep /\ (MdFileEvent(Head(queue)) \/ DirEvent(Head(queue))))
       /\ (pc = "idle" /\ pc' = "callback") =>
            \E h \in DOMAIN timers : timers[h] = 0 /\ h \notin DOMAIN timers']_vars

\* my-guide/notes.txt was added where my-guide did not exist: the directory
\* event armed the timer, and the file event was handled later, the timer
\* running on as it was
C12_Witness ==
    /\ pc = "idle"
    /\ queue = <<>>
    /\ hist.edits = 1
    /\ <<N_guide, N_notes>> \in DOMAIN fs
    /\ hist.burst = 1
    /\ hist.passesSince = 0
    /\ syncTimeout \in DOMAIN timers
    /\ timers[syncTimeout] < debounceMs

\* the controller is in PendingSync: a debounce timer is armed
PendingSync == DOMAIN timers # {}

\* what the controller itself records about its timer: scheduleSync() takes
\* the timer for armed when syncTimeout is set
TimerStateArmed == syncTimeout # 0

\* the watcher is up and the controller records 'armed' exactly while in
\* PendingSync
TimerStateMatchesPending ==
    pc \in {"idle", "callback"} => (TimerStateArmed <=> PendingSync)

\* a pass has begun and ended since the last qualifying event, and the
\* controller is in Idle, no timer armed
Resynced == pc = "idle" /\ ~PendingSync /\ hist.passesSince = 1

\* from PendingSync the controller comes to Resynced, unless it is interrupted
EventuallyResynced == PendingSync ~> (Resynced \/ pc = "stopped")

\* the callback of a due timer, once begun, ends in Idle with no timer armed
\* and a pass more on record (syncDirectory over the whole tree, then
\* generateSidebars)
PassReturnsToIdle ==
    [][(pc = "callback" /\ pc' # "callback")
        => (pc' = "idle" /\ ~PendingSync' /\ hist'.runs = hist.runs + 1
            /\ hist'.before = fs)]_vars

\* C13: whenever the controller is in PendingSync the timer expires (events
\* come to an end and no interrupt arrives), one pass over the whole source
\* tree runs, and the controller is back in Idle with no debounce timer
\* armed, so that every qualifying event is followed by a resync pass; and
\* the controller's own timer state records 'armed' exactly while it is in
\* PendingSync.
C13_ResyncLiveness ==
    /\ []TimerStateMatchesPending
    /\ PassReturnsToIdle
    /\ EventuallyResynced

====
